---------------------------- MODULE Spec2Model ----------------------------
(***************************************************************************)
(* HKAddressParser: the throttled client session (components/connection.py)*)
(* and the retrying fetch pipeline (address_fetcher.py, components/util.py)*)
(*                                                                         *)
(* Time is counted in ticks of MIN_SLEEP (0.1 s).  A rate limit is held in *)
(* tenths of a request per second, so that 0.5/s, 1/s, 2/s, 15/s and 20/s  *)
(* are all integers; a number of tokens computed by the filler is held in  *)
(* hundredths of a token (rate in tenths/s times elapsed tenths of a       *)
(* second), which makes the filler's arithmetic exact.                     *)
(***************************************************************************)
EXTENDS Integers, Sequences, FiniteSets, TLC

(***************************************************************************)
(* Bounds of the model.                                                    *)
(***************************************************************************)
\* addresses of the batch (each string address becomes one get_data task)
NumAddr == 3
\* asyncio.Semaphore(20) of get_data_from_addresses, scaled down so that a
\* batch of NumAddr addresses can exceed it
MaxInFlight == 2
\* failed attempts the lookup service gives one address of a batch of several
MaxErrors == 1
\* bodies that parse to None the lookup service gives the address of a
\* batch of one, and each address of a batch of several
MaxNull == 2
BatchNull == 0
\* suggestions in one response of the lookup service
MaxSugg == 2
\* callers of the stand-alone session, and the requests each of them makes
NumCallers == 2
MaxCalls == 3
\* longest time (ticks) the bucket of the stand-alone session stays full
MaxIdle == 10
\* the same for the session of a batch run
BatchIdle == 1
\* longest query and longest field value given to matchStr
MaxAddrLen == 5
MaxValueLen == 7
\* longest text that follows the street name in a query
MaxTailLen == 4
\* candidates of one response given to ParseAddress
MaxCand == 3

(***************************************************************************)
(* Program constants.                                                      *)
(***************************************************************************)
\* MIN_SLEEP = 0.1 s is one tick
MIN_SLEEP == 1
TicksPerSecond == 10
\* get_data(..., max_retries=10, sleep_multiplier=2)
max_retries == 10
sleep_multiplier == 2
\* ThrottledClientSession(rate_limit=20), in tenths of a request per second
BatchRate == 200

Min(a, b) == IF a < b THEN a ELSE b
Max(a, b) == IF a > b THEN a ELSE b

Tasks == 1..NumAddr
Callers == 1..NumCallers

\* rate limits the stand-alone session is constructed with (tenths/s)
Rates == {5, 10, 20, 150, 200}
BadRates == {0, -10}

VARIABLES
    \* ---- ThrottledClientSession
    rate_limit,     \* self.rate_limit, tenths of a request per second
    session,        \* "new" | "open" | "closed" | "config_error"
    maxsize,        \* self._queue.maxsize (0: no queue)
    queue,          \* self._queue.qsize()
    filler,         \* _fillerTask: "none" | "created" | "sleeping" | "cancelled" | "failed"
    elapsed,        \* time.monotonic() - updated_at, ticks
    toWake,         \* ticks left of the filler's asyncio.sleep(sleep)
    fraction,       \* _filler's fraction, hundredths of a token
    put_count,      \* tokens the filler has put so far
    closing,        \* close() after its cancel(), in wait_for: "no" | "awaiting" |
                    \* "awaiting_unstarted" (the filler had not run when cancelled)
    \* ---- get_data_from_addresses / get_data
    naddr,          \* number of (string) addresses of the batch
    sem,            \* free slots of the semaphore
    pc,             \* where each get_data task is
    retries,        \* get_data's retries
    response_data,  \* get_data's response_data
    attempts,       \* network calls the task has issued
    sleeps,         \* the backoff sleeps the task has asked for, in order
    transient,      \* per-attempt failure records (fetching_logic_error_msg)
    exhausted,      \* 'Max Retries Exceeded' records
    outer_err,      \* get_data_error_msg records
    result,         \* what get_data returned: <<>> before it has, else one
                    \* record (NoRecord for None)
    \* ---- callers of the stand-alone session
    cpc,            \* "idle" | "blocked" | "done"
    ccalls,         \* requests the caller has started
    crefused,       \* requests of the caller that got their token and then
                    \* RuntimeError('Session is closed') from the base _request
    \* ---- an observer of the admissions of one second
    wage,           \* ticks since the observed window began (-1: not begun)
    wcount,         \* acquire() calls admitted in the observed window
    \* ---- asyncio.gather
    finished,       \* the get_data tasks that have returned, in the order they did
    \* ---- parse_response / ParseAddress on one response
    input_address,  \* the query, a string (sequence of code points)
    flatten_result, \* the candidate list `result` of ParseAddress
    idx,            \* candidates scored so far by ParseAddress's loop
    parsed_response_dict  \* what parse_response returned, <<>> before it has

limiterVars == <<rate_limit, session, maxsize, queue, filler, elapsed, toWake,
                 fraction, put_count, closing>>
taskVars == <<naddr, sem, pc, retries, response_data, attempts, sleeps,
              transient, exhausted, outer_err, result>>
callerVars == <<cpc, ccalls, crefused>>
windowVars == <<wage, wcount>>
utilVars == <<input_address, flatten_result, idx, parsed_response_dict>>
vars == <<limiterVars, taskVars, callerVars, windowVars, finished, utilVars>>


(***************************************************************************)
(* ThrottledClientSession (components/connection.py)                       *)
(***************************************************************************)
\* asyncio.Queue(min(2, int(rate_limit) + 1)): the capacity of the bucket
BucketCapacity(rate) == Min(2, (rate \div 10) + 1)

\* _get_sleep: max(1 / rate_limit, MIN_SLEEP), in ticks (exact for Rates)
GetSleep(rate) == Max(100 \div rate, MIN_SLEEP)

\* a constructor that rejects only a negative rate_limit
ConstructNegativeOnly(rate) ==
    /\ session = "new"
    /\ rate_limit' = rate
    /\ IF rate < 0
       THEN /\ session' = "config_error"
            /\ UNCHANGED <<maxsize, filler>>
       ELSE /\ session' = "open"
            /\ maxsize' = BucketCapacity(rate)
            /\ filler' = "created"
    /\ UNCHANGED <<queue, elapsed, toWake, fraction, put_count, closing>>
    /\ UNCHANGED <<taskVars, callerVars, windowVars>>
    /\ UNCHANGED finished
    /\ UNCHANGED utilVars

\* __init__: a non-positive rate_limit raises ValueError before the queue
\* and the filler task exist
Construct(rate) ==
    /\ session = "new"
    /\ rate_limit' = rate
    /\ IF rate <= 0
       THEN /\ session' = "config_error"
            /\ UNCHANGED <<maxsize, filler>>
       ELSE /\ session' = "open"
            /\ maxsize' = BucketCapacity(rate)
            /\ filler' = "created"
    /\ UNCHANGED <<queue, elapsed, toWake, fraction, put_count, closing>>
    /\ UNCHANGED <<taskVars, callerVars, windowVars>>
    /\ UNCHANGED finished
    /\ UNCHANGED utilVars

\* rate_limit * (now - updated_at), in hundredths of a token
Increment == rate_limit * elapsed

\* fraction += increment % 1
FractionSum == fraction + (Increment % 100)

\* a filler whose refill credits no elapsed time: it never adds a token
Items2AddNone == Min(maxsize - queue, rate_limit * 0)

\* a refill that is not held to the free room of the queue
Items2AddUncapped == (Increment \div 100) + (FractionSum \div 100)

\* int(min(maxsize - qsize, int(increment) + extra_increment))
Items2Add == Min(maxsize - queue, (Increment \div 100) + (FractionSum \div 100))

\* _filler up to its first sleep: the bucket is filled to its capacity
FillerStart ==
    /\ filler = "created"
    /\ IF maxsize = 0
       THEN /\ filler' = "none"
            /\ UNCHANGED <<queue, put_count, toWake>>
       ELSE /\ filler' = "sleeping"
            /\ queue' = queue + maxsize
            /\ put_count' = put_count + maxsize
            /\ toWake' = GetSleep(rate_limit)
    /\ elapsed' = 0
    /\ fraction' = 0
    /\ UNCHANGED <<rate_limit, session, maxsize, closing>>
    /\ UNCHANGED <<taskVars, callerVars, windowVars>>
    /\ UNCHANGED finished
    /\ UNCHANGED utilVars

\* one turn of _filler's loop, when its sleep is over; a put_nowait into a
\* full queue raises QueueFull, which ends the task (except Exception)
FillerWake ==
    /\ filler = "sleeping"
    /\ toWake = 0
    /\ IF queue < maxsize
       THEN /\ IF queue + Items2Add > maxsize
               THEN /\ filler' = "failed"
                    /\ queue' = maxsize
                    /\ put_count' = put_count + (maxsize - queue)
               ELSE /\ filler' = filler
                    /\ queue' = queue + Items2Add
                    /\ put_count' = put_count + Items2Add
            /\ fraction' = FractionSum % 100
            /\ elapsed' = 0
       ELSE UNCHANGED <<filler, queue, put_count, fraction, elapsed>>
    /\ toWake' = GetSleep(rate_limit)
    /\ UNCHANGED <<rate_limit, session, maxsize, closing>>
    /\ UNCHANGED <<taskVars, callerVars, windowVars>>
    /\ UNCHANGED finished
    /\ UNCHANGED utilVars

\* close() up to its await: the filler task is cancelled, and close()
\* waits for it in wait_for, which gives the event loop to the tasks that
\* are ready.  A filler cancelled in its sleep ends at its next step (it
\* catches CancelledError) and puts no token any more; a filler cancelled
\* before its first step never runs.
Close ==
    /\ session = "open"
    /\ closing = "no"
    /\ filler \in {"created", "sleeping", "failed"}
    /\ filler' = IF filler = "failed" THEN filler ELSE "cancelled"
    /\ closing' = IF filler = "created" THEN "awaiting_unstarted" ELSE "awaiting"
    /\ UNCHANGED <<rate_limit, session, maxsize, queue, elapsed, toWake, fraction, put_count>>
    /\ UNCHANGED <<taskVars, callerVars, windowVars>>
    /\ UNCHANGED finished
    /\ UNCHANGED utilVars

\* close() after its await: the filler task has ended and super().close()
\* closes the session.  Awaiting a task that was cancelled before its first
\* step raises CancelledError out of close(), and the session stays open.
CloseFinish ==
    /\ closing # "no"
    /\ closing' = "no"
    /\ session' = IF closing = "awaiting_unstarted" THEN session ELSE "closed"
    /\ UNCHANGED <<rate_limit, maxsize, queue, filler, elapsed, toWake, fraction, put_count>>
    /\ UNCHANGED <<taskVars, callerVars, windowVars>>
    /\ UNCHANGED finished
    /\ UNCHANGED utilVars

\* a get() that never waits
QueueNeverEmpty == FALSE

\* _allow: await self._queue.get() takes one token; it waits while the
\* queue is empty
QueueEmpty == queue = 0

QueueGet == queue' = queue - 1

\* the observed window [begin, begin + 1 s) is open
WindowIsOpen == wage >= 0 /\ wage < TicksPerSecond

\* time passes by one tick; the filler wakes exactly when its sleep is over,
\* and the bucket stays full for at most `idle` ticks
Tick(idle) ==
    /\ filler = "sleeping" => toWake > 0
    /\ (filler = "sleeping" /\ queue = maxsize) => elapsed < idle
    /\ elapsed' = IF filler = "sleeping" THEN elapsed + 1 ELSE elapsed
    /\ toWake' = IF filler = "sleeping" THEN toWake - 1 ELSE toWake
    /\ wage' = IF WindowIsOpen THEN wage + 1 ELSE wage
    /\ UNCHANGED wcount
    /\ UNCHANGED <<rate_limit, session, maxsize, queue, filler, fraction, put_count, closing>>
    /\ UNCHANGED <<taskVars, callerVars>>
    /\ UNCHANGED finished
    /\ UNCHANGED utilVars


(***************************************************************************)
(* Callers of a stand-alone session: each calls session._request, that is  *)
(* _allow and then the network call, at most MaxCalls times.               *)
(***************************************************************************)
\* the observer counts an admission that falls into its window
Admit == /\ wcount' = IF WindowIsOpen THEN wcount + 1 ELSE wcount
         /\ UNCHANGED wage

\* the observer begins its window: any instant of the run may be chosen
WindowOpen ==
    /\ session = "open"
    /\ wage = -1
    /\ wage' = 0
    /\ UNCHANGED <<wcount, limiterVars, taskVars, callerVars>>
    /\ UNCHANGED finished
    /\ UNCHANGED utilVars

\* super()._request on a closed session raises RuntimeError
Refused(c) ==
    crefused' = [crefused EXCEPT ![c] = IF session = "closed" THEN @ + 1 ELSE @]

\* _request -> _allow: queue.get() returns at once when a token is there,
\* and suspends the caller on an empty queue; the state of the session is
\* not looked at before the token is taken
CallerRequest(c) ==
    /\ session \in {"open", "closed"}
    /\ cpc[c] = "idle"
    /\ ccalls[c] < MaxCalls
    /\ ccalls' = [ccalls EXCEPT ![c] = @ + 1]
    /\ IF QueueEmpty
       THEN /\ cpc' = [cpc EXCEPT ![c] = "blocked"]
            /\ UNCHANGED <<queue, windowVars, crefused>>
       ELSE /\ QueueGet
            /\ Admit
            /\ Refused(c)
            /\ UNCHANGED cpc
    /\ UNCHANGED <<rate_limit, session, maxsize, filler, elapsed, toWake, fraction, put_count, closing>>
    /\ UNCHANGED taskVars
    /\ UNCHANGED finished
    /\ UNCHANGED utilVars

\* a caller suspended in queue.get() resumes with a token
CallerAdmit(c) ==
    /\ cpc[c] = "blocked"
    /\ ~QueueEmpty
    /\ QueueGet
    /\ Admit
    /\ Refused(c)
    /\ cpc' = [cpc EXCEPT ![c] = "idle"]
    /\ UNCHANGED <<rate_limit, session, maxsize, filler, elapsed, toWake, fraction, put_count, closing>>
    /\ UNCHANGED <<ccalls, taskVars>>
    /\ UNCHANGED finished
    /\ UNCHANGED utilVars

NoBody == [kind |-> "None", haskey |-> FALSE, sugg |-> <<>>]

\* no response is being parsed
UtilIdle ==
    /\ input_address = <<>>
    /\ flatten_result = <<>>
    /\ idx = 0
    /\ parsed_response_dict = <<>>

\* no session is constructed and no batch is started
SessionIdle ==
    /\ rate_limit = 0
    /\ session = "new"
    /\ maxsize = 0
    /\ queue = 0
    /\ filler = "none"
    /\ elapsed = 0
    /\ toWake = 0
    /\ fraction = 0
    /\ put_count = 0
    /\ closing = "no"
    /\ naddr = 0
    /\ sem = 0
    /\ pc = [t \in Tasks |-> "none"]
    /\ retries = [t \in Tasks |-> 0]
    /\ response_data = [t \in Tasks |-> NoBody]
    /\ attempts = [t \in Tasks |-> 0]
    /\ sleeps = [t \in Tasks |-> <<>>]
    /\ transient = [t \in Tasks |-> 0]
    /\ exhausted = [t \in Tasks |-> 0]
    /\ outer_err = [t \in Tasks |-> 0]
    /\ result = [t \in Tasks |-> <<>>]
    /\ cpc = [c \in Callers |-> "idle"]
    /\ ccalls = [c \in Callers |-> 0]
    /\ crefused = [c \in Callers |-> 0]
    /\ wage = -1
    /\ wcount = 0
    /\ finished = <<>>

LimiterInit == SessionIdle /\ UtilIdle

LimiterNext ==
    \/ \E r \in Rates \cup BadRates : Construct(r)
    \/ FillerStart
    \/ FillerWake
    \/ Close
    \/ CloseFinish
    \/ Tick(MaxIdle)
    \/ \E c \in Callers : CallerRequest(c)
    \/ \E c \in Callers : CallerAdmit(c)
    \/ WindowOpen

LimiterSpec == LimiterInit /\ [][LimiterNext]_vars

\* The stand-alone session without the observer, under the fairness of the
\* event loop: a task that can run is run (the filler's steps, a caller
\* resumed by a token), and time passes.  close() is the caller's choice and
\* is not forced.
FairLimiterNext ==
    \/ \E r \in Rates \cup BadRates : Construct(r)
    \/ FillerStart
    \/ FillerWake
    \/ Close
    \/ CloseFinish
    \/ Tick(MaxIdle)
    \/ \E c \in Callers : CallerRequest(c)
    \/ \E c \in Callers : CallerAdmit(c)

FairLimiterSpec ==
    /\ LimiterInit
    /\ [][FairLimiterNext]_vars
    /\ WF_vars(FillerStart)
    /\ WF_vars(FillerWake)
    /\ WF_vars(Tick(MaxIdle))
    /\ WF_vars(CloseFinish)
    /\ \A c \in Callers : WF_vars(CallerAdmit(c))


(***************************************************************************)
(* components/util.py in detail: the matching primitives and the scorer.   *)
(* A string is the sequence of its code points; str `<` is the             *)
(* lexicographic order of the code points.  None is the empty sequence     *)
(* where a span or a goodness is expected.                                 *)
(*                                                                         *)
(* A goodness and a score are Python floats (IEEE 754 binary64, round to   *)
(* nearest, ties to even).  Every float of the scorer is a whole multiple  *)
(* of 2^-52, and it is held exactly as the triple <<hi, mid, lo>> of the   *)
(* value (hi * 2^40 + mid * 2^20 + lo) / 2^52, with mid and lo in          *)
(* 0 .. 2^20 - 1 and hi any integer: 1.0 is <<4096, 0, 0>>, 0.5 is         *)
(* <<2048, 0, 0>> and -1.0 is <<-4096, 0, 0>>.  A float has 53 significant *)
(* bits, and each operation rounds its exact result to them.               *)
(***************************************************************************)
\* the base of mid and lo
Limb == 2^20

\* hi of 1.0: 2^52 / 2^40
UnitHi == 2^12

\* the triple of hi * 2^40 + mid * 2^20 + lo, for any three integers
Normalise(hi, mid, lo) ==
    <<hi + ((mid + (lo \div Limb)) \div Limb), (mid + (lo \div Limb)) % Limb, lo % Limb>>

\* float(n) of an int n
FloatOf(n) == <<n * UnitHi, 0, 0>>

\* 0.5
FloatHalf == <<UnitHi \div 2, 0, 0>>

\* -x
Negate(x) == Normalise(0 - x[1], 0 - x[2], 0 - x[3])

\* the number of low bits a magnitude of the given hi has beyond the 53 a
\* float keeps
ExcessBits(hi) ==
    IF hi < 2 * UnitHi THEN 0
    ELSE CHOOSE e \in 1..17 : UnitHi * 2^e <= hi /\ hi < 2 * UnitHi * 2^e

\* x >= 0 with its e lowest bits rounded away, to nearest, ties to even
RoundBits(x, e) ==
    IF e = 0 THEN x
    ELSE IF 2 * (x[3] % 2^e) > 2^e
              \/ (2 * (x[3] % 2^e) = 2^e /\ (x[3] \div 2^e) % 2 = 1)
         THEN Normalise(x[1], x[2], ((x[3] \div 2^e) + 1) * 2^e)
         ELSE <<x[1], x[2], (x[3] \div 2^e) * 2^e>>

\* the float nearest to the exact value x
RoundNearestEven(x) ==
    IF x[1] < 0
    THEN Negate(RoundBits(Negate(x), ExcessBits(Negate(x)[1])))
    ELSE RoundBits(x, ExcessBits(x[1]))

\* x + y
FloatAdd(x, y) == RoundNearestEven(Normalise(x[1] + y[1], x[2] + y[2], x[3] + y[3]))

\* w * x for an int w
FloatMul(w, x) == RoundNearestEven(Normalise(w * x[1], w * x[2], w * x[3]))

\* x < y
FloatLess(x, y) ==
    \/ x[1] < y[1]
    \/ x[1] = y[1] /\ x[2] < y[2]
    \/ x[1] = y[1] /\ x[2] = y[2] /\ x[3] < y[3]

\* int(x): the integer part, towards zero
FloatToInt(x) ==
    IF x[1] < 0 THEN 0 - (Negate(x)[1] \div UnitHi) ELSE x[1] \div UnitHi

\* s[i:]
StrFrom(s, i) == SubSeq(s, i + 1, Len(s))

\* sub occurs in s at the 0-based position p
OccursAt(s, sub, p) ==
    /\ p + Len(sub) <= Len(s)
    /\ SubSeq(s, p + 1, p + Len(sub)) = sub

\* s.find(sub): the first position at which sub occurs in s, or -1
find(s, sub) ==
    IF \E p \in 0..Len(s) : OccursAt(s, sub, p)
    THEN CHOOSE p \in 0..Len(s) :
            /\ OccursAt(s, sub, p)
            /\ \A q \in 0..(p - 1) : ~OccursAt(s, sub, q)
    ELSE -1

\* a < b for two strings
RECURSIVE StrLess(_, _)
StrLess(a, b) ==
    IF Len(b) = 0 THEN FALSE
    ELSE IF Len(a) = 0 THEN TRUE
    ELSE IF a[1] # b[1] THEN a[1] < b[1]
    ELSE StrLess(Tail(a), Tail(b))

\* the tuple (fieldName, fieldVal, matchedPos, goodness) of the match lists
FieldMatch(fieldName, fieldVal, matchSpan, goodness) ==
    [fieldName |-> fieldName, fieldVal |-> fieldVal,
     matchSpan |-> matchSpan, goodness |-> goodness]

\* the digits of L * 2^53 / N in base 2^20, by long division: hi, mid, lo
\* and the remainder
QuotientDigits(L, N) ==
    LET r2 == (L * 2 * UnitHi) % N
        r1 == (r2 * Limb) % N
    IN  <<(L * 2 * UnitHi) \div N, (r2 * Limb) \div N, (r1 * Limb) \div N,
          (r1 * Limb) % N>>

\* a quotient that is cut to its 53 bits instead of rounded
GoodnessTruncated(d, N) == Normalise(d[1] - UnitHi, d[2], d[3])

\* 2 * fl(L / N) - 1 from the digits d of L * 2^53 / N, where fl rounds
\* the quotient to nearest, ties to even
GoodnessOf(d, N) ==
    Normalise(d[1] - UnitHi, d[2],
              d[3] + (IF 2 * d[4] > N \/ (2 * d[4] = N /\ d[3] % 2 = 1) THEN 1 ELSE 0))

\* (len(newInStr)/len(inStr) - 0.5)*2, for N <= 2 * L <= 2 * N, which is
\* what matchStr's breaks leave: the quotient is a float of [0.5, 1], so
\* the subtraction and the doubling are exact
Goodness(L, N) == GoodnessOf(QuotientDigits(L, N), N)

\* a loop without its two breaks
GiveUpNever(inStr, i) == FALSE

\* the two breaks of matchStr's loop, taken after the i-th try has failed
GiveUp(inStr, i) ==
    \/ (Len(inStr) - i) <= 3
    \/ i >= Len(inStr) \div 2

\* matchStr's loop from its i-th turn on: the suffix inStr[i:] is looked for
\* in inAddr; found, it is the match; not found, the loop gives up or strips
\* one more leading character
RECURSIVE matchStrFrom(_, _, _, _)
matchStrFrom(inAddr, fieldName, inStr, i) ==
    IF i >= Len(inStr)
    THEN FieldMatch(fieldName, inStr, <<>>, <<>>)
    ELSE LET newInStr == StrFrom(inStr, i)
             matchedPosStart == find(inAddr, newInStr)
         IN  IF matchedPosStart >= 0
             THEN FieldMatch(fieldName, inStr,
                             <<matchedPosStart, matchedPosStart + Len(newInStr)>>,
                             Goodness(Len(newInStr), Len(inStr)))
             ELSE IF GiveUp(inStr, i)
                  THEN FieldMatch(fieldName, inStr, <<>>, <<>>)
                  ELSE matchStrFrom(inAddr, fieldName, inStr, i + 1)

\* matchStr returns a list of one match
matchStr(inAddr, fieldName, inStr) == <<matchStrFrom(inAddr, fieldName, inStr, 0)>>


(***************************************************************************)
(* A dict of the candidate's structured address is the sequence of its     *)
(* items in order; an item has a key and a value that is a string, a       *)
(* nested dict, or something else (a number, a list, null).                *)
(***************************************************************************)
StrItem(k, str) == [k |-> k, t |-> "str", s |-> str, d |-> <<>>]
DictItem(k, dict) == [k |-> k, t |-> "dict", s |-> <<>>, d |-> dict]
OtherItem(k) == [k |-> k, t |-> "other", s |-> <<>>, d |-> <<>>]

\* k in inDict
HasKey(inDict, k) == \E i \in DOMAIN inDict : inDict[i].k = k

\* inDict[k]
Item(inDict, k) == inDict[CHOOSE i \in DOMAIN inDict : inDict[i].k = k]

\* inDict.get(k, ''), for string values
GetStr(inDict, k) == IF HasKey(inDict, k) THEN Item(inDict, k).s ELSE <<>>

\* what a matching function gives: its list of matches, or an exception
Matches(l) == [err |-> FALSE, matches |-> l]
Raised == [err |-> TRUE, matches |-> <<>>]

\* the characters str.split() splits at
Whitespace ==
    (9..13) \cup (28..32) \cup {133, 160, 5760, 8232, 8233, 8239, 8287, 12288}
        \cup (8192..8202)

\* the class [0-9A-z] and the class [至及\-] of the building-number pattern
BNoChars == (48..57) \cup (65..122)
BNoSeparators == {33267, 21450, 45}
\* 號
BNoMarker == 34399

\* the length of the longest prefix of s made of characters of class
RECURSIVE RunLength(_, _)
RunLength(s, class) ==
    IF Len(s) = 0 \/ s[1] \notin class THEN 0
    ELSE 1 + RunLength(Tail(s), class)

\* s without its trailing whitespace
RECURSIVE RStrip(_)
RStrip(s) ==
    IF Len(s) = 0 \/ s[Len(s)] \notin Whitespace THEN s
    ELSE RStrip(SubSeq(s, 1, Len(s) - 1))

\* the characters after the last whitespace of s
RECURSIVE AfterLastSpace(_)
AfterLastSpace(s) ==
    IF \E i \in DOMAIN s : s[i] \in Whitespace
    THEN AfterLastSpace(Tail(s))
    ELSE s

\* inStr.split()[-1], of a string with a character that is no whitespace
LastSegment(inStr) == AfterLastSpace(RStrip(inStr))

\* re.match(r'([0-9A-z]+)[至及\-]*([0-9A-z]*)號', inStr): the groups and the
\* end of the match.  Each part is taken as long as it goes: no shorter
\* choice can match, the marker being in neither class.
reMatch(inStr) ==
    LET a == RunLength(inStr, BNoChars)
        rest1 == StrFrom(inStr, a)
        b == RunLength(rest1, BNoSeparators)
        rest2 == StrFrom(rest1, b)
        c == RunLength(rest2, BNoChars)
        rest3 == StrFrom(rest2, c)
    IN  IF a >= 1 /\ Len(rest3) >= 1 /\ rest3[1] = BNoMarker
        THEN [ok |-> TRUE, from |-> SubSeq(inStr, 1, a),
              to |-> SubSeq(rest2, 1, c), end |-> a + b + c + 1]
        ELSE [ok |-> FALSE, from |-> <<>>, to |-> <<>>, end |-> 0]

\* the value of a string of digits (the other characters are skipped)
RECURSIVE StrToInt(_)
StrToInt(s) ==
    IF Len(s) = 0 THEN 0
    ELSE LET c == s[Len(s)]
             front == StrToInt(SubSeq(s, 1, Len(s) - 1))
         IN  IF c \in 48..57 THEN 10 * front + (c - 48) ELSE front

\* an overlap test that compares the building numbers as numbers
NoOverlapNumeric(ogcioBNoFrom, ogcioBNoTo, inAddrBNoFrom, inAddrBNoTo) ==
    \/ StrToInt(ogcioBNoTo) < StrToInt(inAddrBNoFrom)
    \/ StrToInt(ogcioBNoFrom) > StrToInt(inAddrBNoTo)

\* ogcioBNoTo < inAddrBNoFrom or ogcioBNoFrom > inAddrBNoTo, on strings
NoOverlap(ogcioBNoFrom, ogcioBNoTo, inAddrBNoFrom, inAddrBNoTo) ==
    \/ StrLess(ogcioBNoTo, inAddrBNoFrom)
    \/ StrLess(inAddrBNoTo, ogcioBNoFrom)

\* a goodness of the building-number matches that is always 1
BNoGoodnessOne(inAddrBNo, ogcioBNo) == FloatOf(1)

\* 1. if inAddrBNo == ogcioBNo else 0.5
BNoGoodness(inAddrBNo, ogcioBNo) ==
    IF inAddrBNo = ogcioBNo THEN FloatOf(1) ELSE FloatHalf

\* the number that follows the street in inAddr: re.match on
\* inAddr[matchedPosEnd:], and no match when the street has no span
AddressNumber(inAddr, matchedPos) ==
    IF matchedPos # <<>>
    THEN reMatch(StrFrom(inAddr, matchedPos[2]))
    ELSE reMatch(<<>>)

\* the matches of the building numbers of the candidate, from the span of
\* the street and the number reResult that follows it in inAddr
BNoMatchList(inDict, matchedPos, reResult) ==
    LET ogcioBNoFrom == GetStr(inDict, "BuildingNoFrom")
        ogcioBNoTo == IF GetStr(inDict, "BuildingNoTo") = <<>>
                      THEN ogcioBNoFrom ELSE GetStr(inDict, "BuildingNoTo")
        inAddrBNoFrom == reResult.from
        inAddrBNoTo == IF reResult.to = <<>> THEN reResult.from ELSE reResult.to
        inAddrBNoSpan ==
            IF NoOverlap(ogcioBNoFrom, ogcioBNoTo, inAddrBNoFrom, inAddrBNoTo)
            THEN <<>>
            ELSE IF reResult.ok
                 THEN <<matchedPos[2], matchedPos[2] + reResult.end>>
                 ELSE <<>>
        fromMatch == IF HasKey(inDict, "BuildingNoFrom")
                     THEN <<FieldMatch("BuildingNoFrom", ogcioBNoFrom, inAddrBNoSpan,
                                       BNoGoodness(inAddrBNoFrom, ogcioBNoFrom))>>
                     ELSE <<>>
        toMatch == IF HasKey(inDict, "BuildingNoTo")
                   THEN <<FieldMatch("BuildingNoTo", ogcioBNoTo, inAddrBNoSpan,
                                     BNoGoodness(inAddrBNoTo, ogcioBNoTo))>>
                   ELSE <<>>
    IN  fromMatch \o toMatch

\* matchChiStreetOrVillage, after the street match: nothing more when the
\* candidate has no BuildingNoFrom, else the building numbers of the
\* candidate against the number that follows the street in inAddr
BuildingNoMatches(inAddr, inDict, streetMatch) ==
    IF GetStr(inDict, "BuildingNoFrom") = <<>> THEN <<>>
    ELSE BNoMatchList(inDict, streetMatch.matchSpan,
                      AddressNumber(inAddr, streetMatch.matchSpan))

\* matchChiStreetOrVillage: inDict[None] (neither name is there) raises
\* KeyError, a name that is no string has no split(), and split()[-1] of a
\* name without a character raises IndexError.  The building numbers of
\* the service are strings.
matchChiStreetOrVillage(inAddr, inDict) ==
    LET key == IF HasKey(inDict, "VillageName") THEN "VillageName"
               ELSE IF HasKey(inDict, "StreetName") THEN "StreetName"
               ELSE "None"
    IN  IF key = "None" THEN Raised
        ELSE IF Item(inDict, key).t # "str" THEN Raised
        ELSE IF RStrip(Item(inDict, key).s) = <<>> THEN Raised
        ELSE LET inStr == LastSegment(Item(inDict, key).s)
                 streetMatch == matchStr(inAddr, key, inStr)[1]
             IN  Matches(<<streetMatch>> \o BuildingNoMatches(inAddr, inDict, streetMatch))

\* matches += ...: the lists of two matchings joined, or the exception of
\* one of them
Joined(first, rest) ==
    IF first.err \/ rest.err THEN Raised
    ELSE Matches(first.matches \o rest.matches)

\* matchDict: the matches of the items of inDict, in order; a value that is
\* neither a dict nor a string is passed over
RECURSIVE matchDict(_, _)
matchDict(inAddr, inDict) ==
    IF inDict = <<>> THEN Matches(<<>>)
    ELSE LET item == Head(inDict)
         IN  Joined(IF item.k \in {"ChiStreet", "ChiVillage"}
                    THEN matchChiStreetOrVillage(inAddr, item.d)
                    ELSE IF item.t = "dict" THEN matchDict(inAddr, item.d)
                    ELSE IF item.t = "str" THEN Matches(matchStr(inAddr, item.k, item.s))
                    ELSE Matches(<<>>),
                    matchDict(inAddr, Tail(inDict)))

\* scoreDict.get(fieldName, 0)
scoreDict(fieldName) ==
    CASE fieldName = "Region" -> 10
      [] fieldName = "StreetName" -> 20
      [] fieldName = "VillageName" -> 20
      [] fieldName = "EstateName" -> 20
      [] fieldName = "BuildingNoFrom" -> 30
      [] fieldName = "BuildingNoTo" -> 30
      [] fieldName = "BuildingName" -> 40
      [] OTHER -> 0

\* a scorer that does not charge a match without a span
MatchScoreNoPenalty(m) ==
    IF m.matchSpan = <<>> THEN FloatOf(0)
    ELSE FloatMul(scoreDict(m.fieldName), m.goodness)

\* what one match adds to the score: -1 without a span, else
\* scoreDict.get(fieldName, 0) * goodness
MatchScore(m) ==
    IF m.matchSpan = <<>> THEN FloatOf(-1)
    ELSE FloatMul(scoreDict(m.fieldName), m.goodness)

\* the score of a list of matches
RECURSIVE ScoreOf(_)
ScoreOf(matches) ==
    IF matches = <<>> THEN FloatOf(0)
    ELSE FloatAdd(ScoreOf(SubSeq(matches, 1, Len(matches) - 1)),
                MatchScore(matches[Len(matches)]))

\* inAddrHasMatch: the character at the (0-based) position i - 1 is marked
\* when a match has a span over it
HasMatchMask(inAddr, matches) ==
    [i \in 1..Len(inAddr) |->
        \E j \in DOMAIN matches :
            /\ matches[j].matchSpan # <<>>
            /\ matches[j].matchSpan[1] <= i - 1
            /\ i - 1 < matches[j].matchSpan[2]]

\* the Similarity object; err: the matching raised and there is none
Similarity(err, score, inAddrHasMatch, ogcioMatches) ==
    [err |-> err, score |-> score, inAddrHasMatch |-> inAddrHasMatch,
     ogcioMatches |-> ogcioMatches]

NoSimilarity == Similarity(TRUE, FloatOf(0), <<>>, <<>>)

\* the score and the mask of the matches m of matchDict
Aggregate(inAddr, m) ==
    IF m.err THEN NoSimilarity
    ELSE Similarity(FALSE, ScoreOf(m.matches),
                    HasMatchMask(inAddr, m.matches), m.matches)

getSimilarityWithOGCIO(inAddr, ogcioResult) ==
    Aggregate(inAddr, matchDict(inAddr, ogcioResult))

\* one entry of flattenOGCIO's list: rank, chi and OGCIO_score (the score
\* of the service, in tenths), and the 'match' ParseAddress attaches to it
Candidate(rank, chi, OGCIO_score) ==
    [rank |-> rank, chi |-> chi, OGCIO_score |-> OGCIO_score,
     scored |-> FALSE, match |-> NoSimilarity]

\* a sort that puts a candidate before those of equal score
SortedInsertFirst(sorted, x) ==
    LET k == Cardinality({i \in DOMAIN sorted :
                              FloatLess(x.match.score, sorted[i].match.score)})
    IN  SubSeq(sorted, 1, k) \o <<x>> \o SubSeq(sorted, k + 1, Len(sorted))

\* x is put after the candidates whose score is not less than its own
SortedInsert(sorted, x) ==
    LET k == Cardinality({i \in DOMAIN sorted :
                              ~FloatLess(sorted[i].match.score, x.match.score)})
    IN  SubSeq(sorted, 1, k) \o <<x>> \o SubSeq(sorted, k + 1, Len(sorted))

\* result.sort(key=lambda x: x['match'].score, reverse=True): a stable sort,
\* candidates of equal score keep their order
RECURSIVE SortByScore(_)
SortByScore(l) ==
    IF l = <<>> THEN <<>>
    ELSE SortedInsert(SortByScore(SubSeq(l, 1, Len(l) - 1)), l[Len(l)])

\* the record of parse_response, of which the fields of the Chinese address
\* and the score are kept; none: parse_response returned None
Record(none, address, score, region, building_name, street_name, building_no) ==
    [none |-> none, input_address |-> address, score |-> score,
     CHI_Region |-> region, OGCIO_CHI_BuildingName |-> building_name,
     OGCIO_CHI_StreetName |-> street_name, OGCIO_CHI_BuildingNo |-> building_no]

NoRecord == Record(TRUE, <<>>, 0, <<>>, <<>>, <<>>, <<>>)

\* result.get('chi', {}).get(outer, {}).get(inner), '' when a key is absent
NestedStr(chi, outer, inner) ==
    IF HasKey(chi, outer) THEN GetStr(Item(chi, outer).d, inner) ELSE <<>>

\* a record whose score is the integer part of the similarity score
ParsedRecordOwnScore(best, address) ==
    Record(FALSE, address,
           FloatToInt(best.match.score),
           GetStr(best.chi, "Region"),
           GetStr(best.chi, "BuildingName"),
           NestedStr(best.chi, "ChiStreet", "StreetName"),
           NestedStr(best.chi, "ChiStreet", "BuildingNoFrom"))

\* parse_response, from the candidate ParseAddress returned:
\* score = int(result['OGCIO_score']) when there is one, and the fields
ParsedRecord(best, address) ==
    Record(FALSE, address,
           best.OGCIO_score \div 10,
           GetStr(best.chi, "Region"),
           GetStr(best.chi, "BuildingName"),
           NestedStr(best.chi, "ChiStreet", "StreetName"),
           NestedStr(best.chi, "ChiStreet", "BuildingNoFrom"))

\* one turn of ParseAddress's loop: the next candidate gets its 'match'.
\* An exception of the matching is caught by ParseAddress, which returns
\* None, and parse_response then fails on None and returns None.
ScoreCandidate ==
    /\ parsed_response_dict = <<>>
    /\ idx < Len(flatten_result)
    /\ \E match \in {getSimilarityWithOGCIO(input_address, flatten_result[idx + 1].chi)} :
           IF match.err
           THEN /\ parsed_response_dict' = <<NoRecord>>
                /\ UNCHANGED <<flatten_result, idx>>
           ELSE /\ flatten_result' = [flatten_result EXCEPT ![idx + 1] =
                                         [@ EXCEPT !.scored = TRUE, !.match = match]]
                /\ idx' = idx + 1
                /\ UNCHANGED parsed_response_dict
    /\ UNCHANGED input_address
    /\ UNCHANGED <<limiterVars, taskVars, callerVars, windowVars, finished>>

\* the loop is over: the list is sorted and result[0] is returned to
\* parse_response, which builds the record; result[0] of an empty list
\* raises IndexError and parse_response returns None
SortAndReturn ==
    /\ parsed_response_dict = <<>>
    /\ idx = Len(flatten_result)
    /\ flatten_result' = SortByScore(flatten_result)
    /\ parsed_response_dict' =
          IF flatten_result = <<>> THEN <<NoRecord>>
          ELSE <<ParsedRecord(SortByScore(flatten_result)[1], input_address)>>
    /\ UNCHANGED <<input_address, idx>>
    /\ UNCHANGED <<limiterVars, taskVars, callerVars, windowVars, finished>>

(***************************************************************************)
(* The responses parse_response is run on: the query and the list that     *)
(* flattenOGCIO made of the suggestions.                                   *)
(***************************************************************************)
\* the strings of at most n characters of an alphabet
Strings(alphabet, n) == UNION {[1..k -> alphabet] : k \in 0..n}

\* a list whose ranks count from 1
FlatResultFromOne(l) == [i \in 1..Len(l) |-> Candidate(i, l[i].chi, l[i].OGCIO_score)]

\* flattenOGCIO's list of the suggestions l: rank is the position
FlatResult(l) == [i \in 1..Len(l) |-> Candidate(i - 1, l[i].chi, l[i].OGCIO_score)]

Suggestion(chi, OGCIO_score) == [chi |-> chi, OGCIO_score |-> OGCIO_score]

\* (1) one candidate with one string field, over an alphabet of two
\* characters (兆, 康)
MatchAlphabet == {20806, 24247}
MatchInputs ==
    {[address |-> a, suggestions |-> <<Suggestion(<<StrItem("BuildingName", v)>>, 0)>>] :
        a \in Strings(MatchAlphabet, MaxAddrLen),
        v \in Strings(MatchAlphabet, MaxValueLen)}

\* (2) one candidate with a ChiStreet 大道 that has, or has not, building
\* numbers; the query is 大道 or 道 followed by a text of 1, 9, - and 號
StreetName == <<22823, 36947>>
TailAlphabet == {49, 57, 45, BNoMarker}
BNoFromValues == {<<>>, <<49>>, <<57>>, <<49, 57>>}
BNoToValues == {<<>>, <<49>>, <<57>>, <<57, 49>>}
StreetDicts ==
    {<<StrItem("StreetName", StreetName)>> \o f \o t :
        f \in {<<>>} \cup {<<StrItem("BuildingNoFrom", v)>> : v \in BNoFromValues},
        t \in {<<>>} \cup {<<StrItem("BuildingNoTo", v)>> : v \in BNoToValues}}
StreetInputs ==
    {[address |-> h \o tail, suggestions |-> <<Suggestion(<<DictItem("ChiStreet", d)>>, 0)>>] :
        h \in {StreetName, Tail(StreetName)},
        tail \in Strings(TailAlphabet, MaxTailLen),
        d \in StreetDicts}

\* (3) up to MaxCand candidates of a pool, for the queries
\* 香港中環皇后大道中99號 and 九龍彌敦道594號
HongKong == <<39321, 28207>>
Kowloon == <<20061, 40845>>
QueensRoadCentral == <<30343, 21518, 22823, 36947, 20013>>
NathanRoad == <<24396, 25958, 36947>>
ExampleAddress == HongKong \o <<20013, 29872>> \o QueensRoadCentral \o <<57, 57, BNoMarker>>
OtherAddress == Kowloon \o NathanRoad \o <<53, 57, 52, BNoMarker>>
Pool ==
    << \* 皇后大道中 95-101, 香港, 中西區
       Suggestion(<<StrItem("Region", HongKong),
                    DictItem("ChiDistrict", <<StrItem("DcDistrict", <<20013, 35199, 21312>>)>>),
                    DictItem("ChiStreet", <<StrItem("StreetName", QueensRoadCentral),
                                            StrItem("BuildingNoFrom", <<57, 53>>),
                                            StrItem("BuildingNoTo", <<49, 48, 49>>)>>)>>, 756),
       \* 皇后大道中 99, 香港
       Suggestion(<<StrItem("Region", HongKong),
                    DictItem("ChiStreet", <<StrItem("StreetName", QueensRoadCentral),
                                            StrItem("BuildingNoFrom", <<57, 57>>)>>)>>, 430),
       \* 彌敦道 594-596, 九龍, a building name and an estate
       Suggestion(<<StrItem("Region", Kowloon),
                    DictItem("ChiStreet", <<StrItem("StreetName", NathanRoad),
                                            StrItem("BuildingNoFrom", <<53, 57, 52>>),
                                            StrItem("BuildingNoTo", <<53, 57, 54>>)>>),
                    StrItem("BuildingName", <<21109, 33288, 22823, 24264>>),
                    DictItem("ChiEstate", <<StrItem("EstateName", <<28207, 37941>> \o NathanRoad)>>),
                    OtherItem("Floor")>>, 0),
       \* 香港, 中環
       Suggestion(<<StrItem("Region", HongKong),
                    DictItem("ChiDistrict", <<StrItem("DcDistrict", <<20013, 29872>>)>>)>>, 999),
       \* a ChiStreet without a street name
       Suggestion(<<StrItem("Region", HongKong),
                    DictItem("ChiStreet", <<StrItem("BuildingNoFrom", <<57, 57>>)>>)>>, 500) >>
ScoreInputs ==
    {[address |-> a, suggestions |-> [i \in DOMAIN c |-> Pool[c[i]]]] :
        a \in {ExampleAddress, OtherAddress},
        c \in UNION {[1..n -> DOMAIN Pool] : n \in 0..MaxCand}}

\* (4) the query 香港兆康站 against the building 港鐵兆康站, whose last 3 of
\* 5 characters match, and the building 兆康苑 of 香港, 屯門區, of which
\* the region alone matches; in exact arithmetic both would score 8
SiuHong == <<20806, 24247>>
SiuHongStation == HongKong \o SiuHong \o <<31449>>
RoundingPool ==
    << Suggestion(<<StrItem("BuildingName", <<28207, 37941>> \o SiuHong \o <<31449>>)>>, 500),
       Suggestion(<<StrItem("Region", HongKong),
                    DictItem("ChiDistrict", <<StrItem("DcDistrict", <<23663, 38272, 21312>>)>>),
                    StrItem("BuildingName", SiuHong \o <<33489>>)>>, 400) >>
RoundingInputs ==
    {[address |-> SiuHongStation, suggestions |-> [i \in DOMAIN c |-> RoundingPool[c[i]]]] :
        c \in UNION {[1..n -> DOMAIN RoundingPool] : n \in 1..2}}

UtilInputs == MatchInputs \cup StreetInputs \cup ScoreInputs \cup RoundingInputs

\* parse_response is given a response and its query
UtilInit ==
    /\ SessionIdle
    /\ \E in \in UtilInputs :
          /\ input_address = in.address
          /\ flatten_result = FlatResult(in.suggestions)
    /\ idx = 0
    /\ parsed_response_dict = <<>>

UtilNext ==
    \/ ScoreCandidate
    \/ SortAndReturn

UtilSpec == UtilInit /\ [][UtilNext]_vars


(***************************************************************************)
(* The lookup service.  One attempt ends in an exception (network error,   *)
(* non-success status, malformed body) or in a parsed JSON body: None (an  *)
(* empty or null body), a value that is no container, an object without    *)
(* the SuggestedAddress key, or an object whose SuggestedAddress is a list *)
(* of suggestions: suggestions of Pool, or one that lacks the nested path  *)
(* of its address.                                                         *)
(***************************************************************************)
Scalar == [kind |-> "scalar", haskey |-> FALSE, sugg |-> <<>>]
NoKey == [kind |-> "dict", haskey |-> FALSE, sugg |-> <<>>]
Suggested(l) == [kind |-> "dict", haskey |-> TRUE, sugg |-> l]

\* a suggestion without ['Address']['PremisesAddress']
Malformed == [OGCIO_score |-> 0]

\* the suggestion lists of the service: none; one without its address; one
\* that is well-formed; one whose ChiStreet has no street name; two of
\* which the second scores higher, and the same two the other way round;
\* three with one lacking its address
ResponseLists ==
    {<<>>, <<Malformed>>, <<Pool[1]>>, <<Pool[5]>>, <<Pool[1], Pool[2]>>,
     <<Pool[2], Pool[1]>>, <<Pool[2], Malformed, Pool[1]>>}
SuggLists == {l \in ResponseLists : Len(l) <= MaxSugg}
Bodies == {NoBody, Scalar, NoKey} \cup {Suggested(l) : l \in SuggLists}

\* the addresses of the batch: raw_address of the t-th get_data task
Queries == <<ExampleAddress, OtherAddress, SiuHongStation>>
raw_address(t) ==
    IF t \in DOMAIN Queries THEN Queries[t] ELSE Queries[1] \o <<48 + t>>

(***************************************************************************)
(* components/util.py and parse_response as functions: what a suggestion   *)
(* list becomes.  A function that catches its own exception prints it and  *)
(* returns None.                                                           *)
(***************************************************************************)
None == [none |-> TRUE, val |-> <<>>]
Some(v) == [none |-> FALSE, val |-> v]

\* flattenOGCIO: every entry gets rank = its position; a missing nested
\* path raises KeyError, which is caught: the function returns None
flattenOGCIO(response_json) ==
    IF \E i \in DOMAIN response_json : "chi" \notin DOMAIN response_json[i]
    THEN None
    ELSE Some(FlatResult(response_json))

\* ParseAddress's loop: every candidate gets its 'match'
ScoredList(candidates, address) ==
    [i \in DOMAIN candidates |->
        [candidates[i] EXCEPT !.scored = TRUE,
                              !.match = getSimilarityWithOGCIO(address, candidates[i].chi)]]

\* the end of a ParseAddress that has a candidate to return for an empty list
BestOfUnchecked(scored) ==
    IF \E i \in DOMAIN scored : scored[i].match.err THEN None
    ELSE IF scored = <<>> THEN Some(Candidate(0, <<>>, 0))
    ELSE Some(SortByScore(scored)[1])

\* the end of ParseAddress, from the list its loop leaves: an exception of
\* the matching was caught (None); else the list is sorted and result[0] is
\* returned, which raises IndexError on an empty list (caught: None)
BestOf(scored) ==
    IF \E i \in DOMAIN scored : scored[i].match.err THEN None
    ELSE IF scored = <<>> THEN None
    ELSE Some(SortByScore(scored)[1])

\* ParseAddress: result[0] of the scored and sorted list; enumerate(None)
\* raises TypeError, which is caught
ParseAddress(flat, address) ==
    IF flat.none THEN None ELSE BestOf(ScoredList(flat.val, address))

\* the record parse_response builds from what ParseAddress returned;
\* result.get on None raises AttributeError, which is caught
RecordOf(best, address) ==
    IF best.none THEN NoRecord ELSE ParsedRecord(best.val, address)

\* parse_response: the output record of the best candidate, or None
parse_response(response, address) ==
    RecordOf(ParseAddress(flattenOGCIO(response), address), address)

\* parse_response(response, raw_address) for the responses and the
\* addresses of the batch
ParsedResponses ==
    [t \in Tasks |-> [l \in SuggLists |-> parse_response(l, raw_address(t))]]

(***************************************************************************)
(* get_data (address_fetcher.py)                                           *)
(***************************************************************************)
\* failed attempts the lookup service may give one address: as many as
\* get_data retries for the address of a batch of one and for the first
\* address of a batch of two, MaxErrors otherwise
FailCap(t) ==
    IF naddr = 1 \/ (naddr = 2 /\ t = 1) THEN max_retries ELSE MaxErrors

\* bodies that parse to None the lookup service may give one address
NullCap == IF naddr = 1 THEN MaxNull ELSE BatchNull

\* a backoff that counts the failure it follows
BackoffSleepNext(r) == IF r = 0 THEN 1 ELSE sleep_multiplier * (r + 1)

\* asyncio.sleep(1 if retries == 0 else sleep_multiplier * retries), seconds
BackoffSleep(r) == IF r = 0 THEN 1 ELSE sleep_multiplier * r

\* while response_data is None and retries < max_retries
LoopContinues(t) == response_data[t] = NoBody /\ retries[t] < max_retries

\* an exhaustion test that is off by one
RetriesExceededStrict(t) == retries[t] > max_retries

\* if retries == max_retries: print('Max Retries Exceeded')
RetriesExceeded(t) == retries[t] = max_retries

\* a semaphore that admits every task
SlotAlwaysFree == TRUE

\* async with semaphore: a slot is free
SlotFree == sem > 0

\* a task that keeps its slot when it leaves the `async with` block
ReleaseSlotKept == sem' = sem

\* leaving `async with semaphore` (normally or by an exception) frees the slot
ReleaseSlot == sem' = sem + 1

\* the loop test holds: the task goes on to `async with semaphore`.  The
\* filler task was created before the get_data tasks and runs first.
GetDataLoop(t) ==
    /\ pc[t] = "loop"
    /\ session = "open"
    /\ filler # "created"
    /\ LoopContinues(t)
    /\ pc' = [pc EXCEPT ![t] = "sem"]
    /\ UNCHANGED <<naddr, sem, retries, response_data, attempts, sleeps,
                   transient, exhausted, outer_err, result>>
    /\ UNCHANGED <<limiterVars, callerVars, windowVars>>
    /\ UNCHANGED finished
    /\ UNCHANGED utilVars

\* the task enters `async with semaphore`
AcquireSlot(t) ==
    /\ pc[t] = "sem"
    /\ SlotFree
    /\ sem' = sem - 1
    /\ pc' = [pc EXCEPT ![t] = "allow"]
    /\ UNCHANGED <<naddr, retries, response_data, attempts, sleeps,
                   transient, exhausted, outer_err, result>>
    /\ UNCHANGED <<limiterVars, callerVars, windowVars>>
    /\ UNCHANGED finished
    /\ UNCHANGED utilVars

\* session.get -> _request: _allow takes a token (when the session has a
\* queue), then the network call is issued
Allow(t) ==
    /\ pc[t] = "allow"
    /\ IF maxsize = 0
       THEN UNCHANGED queue
       ELSE ~QueueEmpty /\ QueueGet
    /\ attempts' = [attempts EXCEPT ![t] = @ + 1]
    /\ pc' = [pc EXCEPT ![t] = "request"]
    /\ UNCHANGED <<naddr, sem, retries, response_data, sleeps,
                   transient, exhausted, outer_err, result>>
    /\ UNCHANGED <<rate_limit, session, maxsize, filler, elapsed, toWake, fraction, put_count, closing>>
    /\ UNCHANGED <<callerVars, windowVars>>
    /\ UNCHANGED finished
    /\ UNCHANGED utilVars

\* an attempt that raises and keeps its slot
RespondErrorKeepsSlot(t) ==
    /\ pc[t] = "request"
    /\ retries[t] < FailCap(t)
    /\ sleeps' = [sleeps EXCEPT ![t] = Append(@, BackoffSleep(retries[t]))]
    /\ pc' = [pc EXCEPT ![t] = "backoff"]
    /\ UNCHANGED <<naddr, sem, retries, response_data, attempts,
                   transient, exhausted, outer_err, result>>
    /\ UNCHANGED <<limiterVars, callerVars, windowVars>>
    /\ UNCHANGED finished
    /\ UNCHANGED utilVars

\* the attempt raises: the slot is released and the task sleeps
RespondError(t) ==
    /\ pc[t] = "request"
    /\ retries[t] < FailCap(t)
    /\ ReleaseSlot
    /\ sleeps' = [sleeps EXCEPT ![t] = Append(@, BackoffSleep(retries[t]))]
    /\ pc' = [pc EXCEPT ![t] = "backoff"]
    /\ UNCHANGED <<naddr, retries, response_data, attempts,
                   transient, exhausted, outer_err, result>>
    /\ UNCHANGED <<limiterVars, callerVars, windowVars>>
    /\ UNCHANGED finished
    /\ UNCHANGED utilVars

\* the attempt returns a parsed body: response_data = await response.json()
RespondBody(t, b) ==
    /\ pc[t] = "request"
    /\ b = NoBody => attempts[t] - retries[t] <= NullCap
    /\ ReleaseSlot
    /\ response_data' = [response_data EXCEPT ![t] = b]
    /\ pc' = [pc EXCEPT ![t] = "loop"]
    /\ UNCHANGED <<naddr, retries, attempts, sleeps,
                   transient, exhausted, outer_err, result>>
    /\ UNCHANGED <<limiterVars, callerVars, windowVars>>
    /\ UNCHANGED finished
    /\ UNCHANGED utilVars

\* the backoff sleep is over: retries += 1 and the failure is logged
BackoffWake(t) ==
    /\ pc[t] = "backoff"
    /\ retries' = [retries EXCEPT ![t] = @ + 1]
    /\ transient' = [transient EXCEPT ![t] = @ + 1]
    /\ pc' = [pc EXCEPT ![t] = "loop"]
    /\ UNCHANGED <<naddr, sem, response_data, attempts, sleeps,
                   exhausted, outer_err, result>>
    /\ UNCHANGED <<limiterVars, callerVars, windowVars>>
    /\ UNCHANGED finished
    /\ UNCHANGED utilVars

\* 'SuggestedAddress' in response_data raises TypeError on None and on a
\* value that is no container; the outer except logs it and None is returned
MembershipRaises(t) == response_data[t].kind \in {"None", "scalar"}

\* a get_data that tests for the key the wrong way round
GetDataResultKeyInverted(t) ==
    IF MembershipRaises(t) THEN NoRecord
    ELSE IF ~response_data[t].haskey
         THEN ParsedResponses[t][response_data[t].sugg]
    ELSE NoRecord

\* what get_data returns: None, or the record of parse_response
GetDataResult(t) ==
    IF MembershipRaises(t) THEN NoRecord
    ELSE IF response_data[t].haskey
         THEN ParsedResponses[t][response_data[t].sugg]
    ELSE NoRecord

\* the loop is left: the rest of get_data, up to its return
GetDataReturn(t) ==
    /\ pc[t] = "loop"
    /\ session = "open"
    /\ filler # "created"
    /\ ~LoopContinues(t)
    /\ exhausted' = [exhausted EXCEPT ![t] = IF RetriesExceeded(t) THEN @ + 1 ELSE @]
    /\ outer_err' = [outer_err EXCEPT ![t] = IF MembershipRaises(t) THEN @ + 1 ELSE @]
    /\ result' = [result EXCEPT ![t] = <<GetDataResult(t)>>]
    /\ pc' = [pc EXCEPT ![t] = "done"]
    /\ finished' = Append(finished, t)
    /\ UNCHANGED <<naddr, sem, retries, response_data, attempts, sleeps, transient>>
    /\ UNCHANGED <<limiterVars, callerVars, windowVars>>
    /\ UNCHANGED utilVars

(***************************************************************************)
(* get_data_from_addresses: the session is constructed with rate_limit=20, *)
(* one get_data task per address is gathered, and the session is closed    *)
(* when the gather has returned.                                           *)
(***************************************************************************)
\* a gather that returns as soon as one task has returned
FirstDone == \E t \in Tasks : pc[t] = "done"

\* await asyncio.gather(*tasks) returns when every task has returned
AllDone == \A t \in Tasks : pc[t] \in {"none", "done"}

\* a session that is closed while tasks of the batch may still run
CloseAtOnce == naddr > 0 /\ Close

\* the gather has returned and the `async with` block of the session is
\* left: close()
GatherReturns == AllDone /\ Close

\* the filler's first step in a batch run: the event loop runs it when
\* get_data_from_addresses first waits, which it does in the gather of at
\* least one task; gather() of no task is done at once and is waited for
\* without giving the loop to the filler
FillerStartInBatch == naddr > 0 /\ FillerStart

\* the state get_data_from_addresses starts in; `addresses` has up to
\* NumAddr entries that are a str, or none (an empty list, or entries that
\* are all skipped)
Init ==
    /\ rate_limit = 0
    /\ session = "new"
    /\ maxsize = 0
    /\ queue = 0
    /\ filler = "none"
    /\ elapsed = 0
    /\ toWake = 0
    /\ fraction = 0
    /\ put_count = 0
    /\ closing = "no"
    /\ naddr \in {0, 1, 2, NumAddr}
    /\ sem = MaxInFlight
    /\ pc = [t \in Tasks |-> IF t <= naddr THEN "loop" ELSE "none"]
    /\ retries = [t \in Tasks |-> 0]
    /\ response_data = [t \in Tasks |-> NoBody]
    /\ attempts = [t \in Tasks |-> 0]
    /\ sleeps = [t \in Tasks |-> <<>>]
    /\ transient = [t \in Tasks |-> 0]
    /\ exhausted = [t \in Tasks |-> 0]
    /\ outer_err = [t \in Tasks |-> 0]
    /\ result = [t \in Tasks |-> <<>>]
    /\ cpc = [c \in Callers |-> "idle"]
    /\ ccalls = [c \in Callers |-> 0]
    /\ crefused = [c \in Callers |-> 0]
    /\ wage = -1
    /\ wcount = 0
    /\ finished = <<>>
    /\ UtilIdle

Next ==
    \/ Construct(BatchRate)
    \/ FillerStartInBatch
    \/ FillerWake
    \/ Tick(BatchIdle)
    \/ \E t \in Tasks : GetDataLoop(t)
    \/ \E t \in Tasks : AcquireSlot(t)
    \/ \E t \in Tasks : Allow(t)
    \/ \E t \in Tasks : RespondError(t)
    \/ \E t \in Tasks : \E b \in Bodies : RespondBody(t, b)
    \/ \E t \in Tasks : BackoffWake(t)
    \/ \E t \in Tasks : GetDataReturn(t)
    \/ GatherReturns
    \/ CloseFinish

Spec == Init /\ [][Next]_vars


\* The batch under the fairness of the event loop: a task that can run is
\* run, time passes, and every network call returns (an exception or a
\* body).  The batch has more addresses than slots, or none at all.
FairBatchInit == Init /\ naddr \in {0, NumAddr}

\* the bodies the service gives the fair batch: a value that is no
\* container, an object without suggestions, and the longest suggestion list
FairBodies ==
    {Scalar, NoKey} \cup {Suggested(l) : l \in {m \in SuggLists : Len(m) = MaxSugg}}

FairBatchNext ==
    \/ Construct(BatchRate)
    \/ FillerStartInBatch
    \/ FillerWake
    \/ Tick(BatchIdle)
    \/ \E t \in Tasks : GetDataLoop(t)
    \/ \E t \in Tasks : AcquireSlot(t)
    \/ \E t \in Tasks : Allow(t)
    \/ \E t \in Tasks : RespondError(t)
    \/ \E t \in Tasks : \E b \in FairBodies : RespondBody(t, b)
    \/ \E t \in Tasks : BackoffWake(t)
    \/ \E t \in Tasks : GetDataReturn(t)
    \/ GatherReturns
    \/ CloseFinish

FairBatchSpec ==
    /\ FairBatchInit
    /\ [][FairBatchNext]_vars
    /\ WF_vars(Construct(BatchRate))
    /\ WF_vars(FillerStartInBatch)
    /\ WF_vars(FillerWake)
    /\ WF_vars(Tick(BatchIdle))
    /\ \A t \in Tasks : WF_vars(GetDataLoop(t))
    /\ \A t \in Tasks : WF_vars(AcquireSlot(t))
    /\ \A t \in Tasks : WF_vars(Allow(t))
    /\ \A t \in Tasks : WF_vars(RespondError(t) \/ \E b \in FairBodies : RespondBody(t, b))
    /\ \A t \in Tasks : WF_vars(BackoffWake(t))
    /\ \A t \in Tasks : WF_vars(GetDataReturn(t))
    /\ WF_vars(GatherReturns)
    /\ WF_vars(CloseFinish)


(***************************************************************************)
(* Derived quantities                                                      *)
(***************************************************************************)
\* tasks inside `async with semaphore`: waiting for a token, or with the
\* network call issued and its response awaited
Holders == {t \in Tasks : pc[t] \in {"allow", "request"}}

RECURSIVE SumTo(_, _)
SumTo(f, n) == IF n = 0 THEN 0 ELSE f[n] + SumTo(f, n - 1)

\* network calls issued so far by all tasks
TotalAttempts == SumTo(attempts, NumAddr)

\* ceil(rate_limit), in requests per second
CeilRate == (rate_limit + 9) \div 10

\* the records of the batch in the order their tasks completed
result_data_as_completed ==
    [i \in 1..Len(finished) |-> result[finished[i]][1]]

\* result_data = await asyncio.gather(*tasks), once every task has
\* returned: position t holds what the task of the t-th address returned,
\* None or the record of that address
result_data ==
    [t \in 1..naddr |-> result[t][1]]

\* a filter that keeps every item
IsAnything(item) == TRUE

\* lambda item: item is not None
IsNotNone(item) == ~item.none

\* list(filter(lambda item: item is not None, process_addresses))
cleaned_process_addresses == SelectSeq(result_data, IsNotNone)

\* close() has ended: it has returned with the session closed, or the
\* CancelledError of its wait_for has left it, the `async with` and
\* get_data_from_addresses (the filler is cancelled, the session is open)
CloseEnded == closing = "no" /\ (session = "closed" \/ filler = "cancelled")

\* what get_data has returned for the t-th address
Outcome(t) ==
    IF result[t] = <<>> THEN "pending"
    ELSE IF result[t][1].none THEN "None"
    ELSE "record"

\* the position in the batch of the address a record is of
TaskOf(record) == CHOOSE t \in Tasks : raw_address(t) = record.input_address

\* the candidate has its address, and every ChiStreet and ChiVillage of it
\* names its street or village
WellFormed(suggestion) ==
    /\ "chi" \in DOMAIN suggestion
    /\ \A i \in DOMAIN suggestion.chi :
           suggestion.chi[i].k \in {"ChiStreet", "ChiVillage"} =>
               \/ HasKey(suggestion.chi[i].d, "StreetName")
               \/ HasKey(suggestion.chi[i].d, "VillageName")

\* parse_response has returned a record
Returned == parsed_response_dict # <<>> /\ ~parsed_response_dict[1].none

\* the candidates that have their 'match'
Scored == {i \in DOMAIN flatten_result : flatten_result[i].scored}

\* the matches of a candidate that matchStr made: those of the string
\* fields and of the street or village name
StrMatches(c) ==
    {j \in DOMAIN c.match.ogcioMatches :
        c.match.ogcioMatches[j].fieldName \notin {"BuildingNoFrom", "BuildingNoTo"}}

\* the suffix value[i:] occurs in address
SuffixOccurs(address, value, i) == find(address, StrFrom(value, i)) >= 0

\* the candidates whose ChiStreet has a BuildingNoFrom that is not empty
WithBuildingNo ==
    {i \in Scored :
        /\ HasKey(flatten_result[i].chi, "ChiStreet")
        /\ GetStr(Item(flatten_result[i].chi, "ChiStreet").d, "BuildingNoFrom") # <<>>}

\* the matches of a candidate for its building numbers
BNoMatches(c) ==
    {j \in DOMAIN c.match.ogcioMatches :
        c.match.ogcioMatches[j].fieldName \in {"BuildingNoFrom", "BuildingNoTo"}}

\* the match of a candidate for the name of its street
StreetMatchOf(c) ==
    c.match.ogcioMatches[CHOOSE j \in DOMAIN c.match.ogcioMatches :
                             c.match.ogcioMatches[j].fieldName = "StreetName"]

\* the range read in the query right after the street match of c; no
\* range (two empty strings) when the street has no span or no number
\* follows it
AddressRange(c) ==
    IF StreetMatchOf(c).matchSpan = <<>> THEN reMatch(<<>>)
    ELSE reMatch(StrFrom(input_address, StreetMatchOf(c).matchSpan[2]))

\* the weights of the fields in the score
FieldWeights ==
    [Region |-> 10, StreetName |-> 20, VillageName |-> 20, EstateName |-> 20,
     BuildingNoFrom |-> 30, BuildingNoTo |-> 30, BuildingName |-> 40]

FieldWeight(fieldName) ==
    IF fieldName \in DOMAIN FieldWeights THEN FieldWeights[fieldName] ELSE 0

\* the sum, in float arithmetic and in the order of the matches, over the
\* first n matches of ms, of -1 for a match without a span and
\* weight * goodness for a match with one
RECURSIVE WeightedSum(_, _)
WeightedSum(ms, n) ==
    IF n = 0 THEN FloatOf(0)
    ELSE FloatAdd(WeightedSum(ms, n - 1),
                  IF ms[n].matchSpan = <<>> THEN FloatOf(-1)
                  ELSE FloatMul(FieldWeight(ms[n].fieldName), ms[n].goodness))

\* N * (g + 1) / 2 - L in units of 2^-53, for a float g: how far the
\* quotient q with g = 2 * q - 1 is from L / N, times N
QuotientError(g, L, N) ==
    Normalise(N * (g[1] + UnitHi) - L * 2 * UnitHi, N * g[2], N * g[3])

\* g = 2 * q - 1 for the float q that is nearest to L / N
IsGoodnessOf(g, L, N) ==
    \/ /\ QuotientError(g, L, N)[1] = 0
       /\ QuotientError(g, L, N)[2] = 0
       /\ 2 * QuotientError(g, L, N)[3] <= N
    \/ /\ QuotientError(g, L, N)[1] = -1
       /\ QuotientError(g, L, N)[2] = Limb - 1
       /\ 2 * (Limb - QuotientError(g, L, N)[3]) <= N

\* parse_response has returned the record of a response of one suggestion
\* whose ChiStreet has a street name and a BuildingNoFrom
OneSuggestionResolved ==
    /\ Returned
    /\ Len(flatten_result) = 1
    /\ NestedStr(flatten_result[1].chi, "ChiStreet", "StreetName") # <<>>
    /\ NestedStr(flatten_result[1].chi, "ChiStreet", "BuildingNoFrom") # <<>>

\* the candidates that have a ChiStreet
WithStreet == {i \in Scored : HasKey(flatten_result[i].chi, "ChiStreet")}

\* the matches of a candidate for the field fieldName
MatchesOf(c, fieldName) ==
    {j \in DOMAIN c.match.ogcioMatches :
        c.match.ogcioMatches[j].fieldName = fieldName}

\* 1.0 or 0.5
OneOrHalf(same) == IF same THEN FloatOf(1) ELSE FloatHalf

\* the numbers of leading characters matchStr strips before a try
Stripped(value) ==
    {i \in 0..(Len(value) - 1) :
        i = 0 \/ (i <= Len(value) - 3 /\ i <= Len(value) \div 2)}

\* bodies that are well-formed and carry no suggestion
NoSuggestion == {NoKey, Suggested(<<>>)}

\* bodies with at least one suggestion, all of them well-formed
GoodBodies ==
    {Suggested(l) : l \in {m \in SuggLists : Len(m) > 0 /\ \A i \in DOMAIN m : WellFormed(m[i])}}

(***************************************************************************)
(* Claims                                                                  *)
(***************************************************************************)

\* C1: in every state of a batch run, the tasks that hold a concurrency-cap
\* slot (waiting for a token, or with the network call in flight) are at
\* most maxInFlight, and the free slots are the rest.
C1_InFlightBounded ==
    /\ Cardinality(Holders) <= MaxInFlight
    /\ sem = MaxInFlight - Cardinality(Holders)

\* every slot is held and one more task waits for a slot
C1_Witness ==
    /\ Cardinality(Holders) = MaxInFlight
    /\ \E t \in Tasks : pc[t] = "sem"

\* C2: a network call is issued only by a task that holds a slot and has
\* taken one token for it: the tokens taken from the bucket are exactly the
\* calls issued, and the calls issued never exceed the tokens the filler
\* has put.
C2_CallsWithinTokens ==
    /\ \A t \in Tasks : pc[t] = "request" => t \in Holders
    /\ Cardinality(Holders) <= MaxInFlight - sem
    /\ put_count - queue = TotalAttempts
    /\ TotalAttempts <= put_count

\* more calls than the bucket holds have been issued (the filler has
\* refilled it), and a call is in flight
C2_Witness ==
    /\ TotalAttempts > maxsize
    /\ maxsize > 0
    /\ \E t \in Tasks : pc[t] = "request"

\* C3: the admissions of any rolling 1-second window do not exceed
\* ceil(rate_limit) + bucketCapacity.  The observer's window is any second
\* of the run.
C3_WindowBound ==
    session = "open" => wcount <= CeilRate + BucketCapacity(rate_limit)

\* C4: while the filler runs, a caller blocked in _allow eventually gets a
\* token and returns; each return takes exactly one token from the bucket.
C4_BlockedCallerServed ==
    /\ \A c \in Callers :
          (cpc[c] = "blocked") ~> (cpc[c] # "blocked" \/ filler = "cancelled")
    /\ [][\A c \in Callers :
            (cpc[c] = "blocked" /\ cpc'[c] # "blocked") => queue' = queue - 1]_vars

\* both callers are blocked on the empty bucket of a running filler that
\* has refilled the bucket before
C4_Witness ==
    /\ filler = "sleeping"
    /\ queue = 0
    /\ put_count > maxsize
    /\ \A c \in Callers : cpc[c] = "blocked"

\* C5: a caller that is blocked in _allow on an empty bucket while close()
\* runs (the filler is cancelled, the session not yet closed) eventually
\* ends its call.
C5_PendingEndsAfterClose ==
    \A c \in Callers :
        (closing # "no" /\ cpc[c] = "blocked" /\ queue = 0) ~> (cpc[c] # "blocked")

\* C6: one get_data call issues at most max_retries network attempts,
\* whatever the lookup service answers.
C6_AttemptsBounded ==
    \A t \in Tasks : attempts[t] <= max_retries

\* C7: when every attempt failed, get_data has made exactly max_retries
\* attempts, returned None, logged max_retries transient failures and
\* logged one 'Max Retries Exceeded'.
C7_ExhaustionAfterAllFailed ==
    \A t \in Tasks :
        (pc[t] = "done" /\ attempts[t] = Len(sleeps[t])) =>
            /\ attempts[t] = max_retries
            /\ Outcome(t) = "None"
            /\ transient[t] = max_retries
            /\ exhausted[t] = 1

\* a task whose max_retries attempts all failed has returned
C7_Witness ==
    \E t \in Tasks :
        /\ pc[t] = "done"
        /\ attempts[t] = Len(sleeps[t])
        /\ attempts[t] = max_retries

\* C8: when the first f attempts failed (f < max_retries) and attempt f + 1
\* returned suggestions, get_data makes no further attempt, logs f
\* transient failures and no exhaustion, and returns the record built from
\* that response.
C8_SuccessAfterFailures ==
    \A t \in Tasks :
        (response_data[t] \in GoodBodies /\ attempts[t] = Len(sleeps[t]) + 1) =>
            /\ pc[t] \in {"loop", "done"}
            /\ Len(sleeps[t]) < max_retries
            /\ transient[t] = Len(sleeps[t])
            /\ exhausted[t] = 0
            /\ pc[t] = "done" => Outcome(t) = "record"

\* a task has returned a record after 3 failed attempts and a 4th that
\* returned suggestions
C8_Witness ==
    \E t \in Tasks :
        /\ pc[t] = "done"
        /\ response_data[t] \in GoodBodies
        /\ Len(sleeps[t]) = 3
        /\ attempts[t] = 4
        /\ Outcome(t) = "record"

\* C9 as stated: the sleep after the first failed attempt is 1, and the
\* sleep after the k-th failed attempt is sleep_multiplier * k.
C9_SleepTimesK ==
    \A t \in Tasks : \A k \in DOMAIN sleeps[t] :
        sleeps[t][k] = IF k = 1 THEN 1 ELSE sleep_multiplier * k

\* C9 amended: the sleep after the first failed attempt is 1, and the sleep
\* after the k-th failed attempt, k >= 2, is sleep_multiplier * (k - 1):
\* the multiplier is applied to the number of failures before this one.
C9_SleepTimesFailuresBefore ==
    \A t \in Tasks : \A k \in DOMAIN sleeps[t] :
        sleeps[t][k] = IF k = 1 THEN 1 ELSE sleep_multiplier * (k - 1)

\* a task has slept after its fourth failed attempt
C9_Witness ==
    \E t \in Tasks : Len(sleeps[t]) >= 4 /\ sleeps[t][4] = 6

\* C10: once an attempt has returned a well-formed body without
\* suggestions (no SuggestedAddress key, or an empty list), get_data makes
\* no further attempt and no backoff sleep, and it returns None.
C10_NoSuggestionIsAbsence ==
    /\ [](\A t \in Tasks :
            response_data[t] \in NoSuggestion =>
                /\ pc[t] \in {"loop", "done"}
                /\ pc[t] = "done" => Outcome(t) = "None")
    /\ [][\A t \in Tasks :
            response_data[t] \in NoSuggestion =>
                /\ attempts'[t] = attempts[t]
                /\ sleeps'[t] = sleeps[t]
                /\ retries'[t] = retries[t]]_vars

\* a task has returned after a failed attempt and an attempt that returned
\* an empty suggestion list
C10_Witness ==
    \E t \in Tasks :
        /\ pc[t] = "done"
        /\ response_data[t] = Suggested(<<>>)
        /\ attempts[t] = 2
        /\ Len(sleeps[t]) = 1
        /\ Outcome(t) = "None"

\* C11: a task in its backoff sleep holds no slot (the held slots are those
\* of the tasks inside `async with semaphore`) and no token; the slot is
\* released by the step that starts the sleep, the sleep ends at the loop
\* test, and every attempt is issued by a task that has acquired a slot
\* anew and takes one token of the bucket for it.
C11_NoSlotAcrossBackoff ==
    /\ [](MaxInFlight - sem = Cardinality(Holders))
    /\ [][\A t \in Tasks :
            /\ (pc'[t] = "backoff" /\ pc[t] # "backoff") =>
                   (pc[t] = "request" /\ sem' = sem + 1)
            /\ pc[t] = "backoff" => pc'[t] \in {"backoff", "loop"}
            /\ (pc'[t] = "allow" /\ pc[t] # "allow") =>
                   (pc[t] = "sem" /\ sem' = sem - 1)
            /\ attempts'[t] # attempts[t] =>
                   /\ pc[t] = "allow"
                   /\ attempts'[t] = attempts[t] + 1
                   /\ queue' = queue - 1]_vars

\* one task sleeps after a failed attempt while another, after its own
\* failed attempt, has a second call in flight, and one slot is held
C11_Witness ==
    \E t \in Tasks : \E u \in Tasks \ {t} :
        /\ pc[t] = "request"
        /\ attempts[t] = 2
        /\ Len(sleeps[t]) = 1
        /\ pc[u] = "backoff"
        /\ sem = MaxInFlight - 1

\* the output holds K - M records, those of the addresses with
\* suggestions, in the order of the addresses in the input
OutputInInputOrder ==
    LET out == cleaned_process_addresses
        M == Cardinality({t \in 1..naddr : response_data[t] \in NoSuggestion})
    IN  /\ Len(out) = naddr - M
        /\ \A i \in DOMAIN out : \A j \in DOMAIN out :
               i < j => TaskOf(out[i]) < TaskOf(out[j])
        /\ {TaskOf(out[i]) : i \in DOMAIN out} =
               {t \in 1..naddr : response_data[t] \in GoodBodies}

\* C12: when the batch run has ended and each of its K addresses got either
\* no suggestions (M of them) or well-formed suggestions, the run has
\* returned its output (the session is closed), and the output holds K - M
\* records, those of the addresses with suggestions, in the order of the
\* addresses in the input, whatever the order the tasks completed in.
C12_OutputCountAndOrder ==
    (/\ CloseEnded
     /\ \A t \in 1..naddr : response_data[t] \in NoSuggestion \cup GoodBodies) =>
        /\ session = "closed"
        /\ OutputInInputOrder

\* C12 for the batches that have a task: the output of a batch that has
\* returned holds K - M records in the order of the input.
C12_OutputOfReturnedBatch ==
    (/\ session = "closed"
     /\ \A t \in 1..naddr : response_data[t] \in NoSuggestion \cup GoodBodies) =>
        OutputInInputOrder

\* the batch has returned; two addresses resolved and the later one's task
\* completed first, and another address got no suggestions
C12_Witness ==
    /\ session = "closed"
    /\ \A t \in 1..naddr : response_data[t] \in NoSuggestion \cup GoodBodies
    /\ \E t \in 1..naddr : response_data[t] \in NoSuggestion
    /\ \E i \in DOMAIN finished : \E j \in DOMAIN finished :
          /\ i < j
          /\ finished[i] > finished[j]
          /\ Outcome(finished[i]) = "record"
          /\ Outcome(finished[j]) = "record"

\* C14: a session constructed with rate_limit <= 0 is a configuration
\* error (ValueError): it has no bucket and no filler task, no token is ever
\* put and no caller's request is started or admitted.
C14_BadRateIsConfigError ==
    (session # "new" /\ rate_limit <= 0) =>
        /\ session = "config_error"
        /\ maxsize = 0
        /\ queue = 0
        /\ filler = "none"
        /\ put_count = 0
        /\ wcount = 0
        /\ \A c \in Callers : ccalls[c] = 0 /\ cpc[c] = "idle"

\* the constructor was given rate_limit = 0 and has raised
C14_Witness ==
    /\ session = "config_error"
    /\ rate_limit = 0

\* C13: a task returns the record of its own response when that response
\* carries well-formed suggestions and None otherwise (after transient
\* failures, after exhausting its retries, on a malformed or an empty
\* suggestion list); the batch returns only when every task has returned; a
\* step of one task changes nothing of another task, and a returned result
\* stays.
C13_FailureIsolated ==
    /\ [](\A t \in Tasks :
            pc[t] = "done" =>
                Outcome(t) = IF response_data[t] \in GoodBodies THEN "record" ELSE "None")
    /\ [](session = "closed" => \A t \in 1..naddr : pc[t] = "done")
    /\ [][\A t \in Tasks : \A u \in Tasks \ {t} :
            pc'[t] # pc[t] =>
                /\ pc'[u] = pc[u]
                /\ retries'[u] = retries[u]
                /\ response_data'[u] = response_data[u]
                /\ attempts'[u] = attempts[u]
                /\ sleeps'[u] = sleeps[u]
                /\ result'[u] = result[u]]_vars
    /\ [][\A t \in Tasks :
            pc[t] = "done" => (pc'[t] = "done" /\ result'[t] = result[t])]_vars

\* the batch of two has returned: the first address exhausted its retries
\* and gave None, the second, which returned after it, gave its record
\* after a failed attempt of its own
C13_Witness ==
    /\ session = "closed"
    /\ naddr = 2
    /\ exhausted[1] = 1
    /\ Outcome(1) = "None"
    /\ finished = <<1, 2>>
    /\ Len(sleeps[2]) = 1
    /\ Outcome(2) = "record"

\* C15: the candidate ParseAddress returns (the first of the sorted list)
\* has a score no other candidate exceeds, and no candidate of the same
\* score has a lower rank.
C15_BestIsMaxLowestRank ==
    Returned =>
        LET best == flatten_result[1]
        IN  \A i \in DOMAIN flatten_result :
               /\ flatten_result[i].scored
               /\ ~FloatLess(best.match.score, flatten_result[i].match.score)
               /\ flatten_result[i].match.score = best.match.score =>
                      best.rank <= flatten_result[i].rank

\* the best of three candidates was not the first of the response, and
\* a later candidate has the same score
C15_Witness ==
    /\ Returned
    /\ Len(flatten_result) = 3
    /\ flatten_result[1].rank = 1
    /\ flatten_result[2].rank = 2
    /\ flatten_result[2].match.score = flatten_result[1].match.score
    /\ FloatLess(flatten_result[3].match.score, flatten_result[1].match.score)

\* C16 as stated: a match of matchStr has no span and no goodness whenever
\* no suffix of more than 3 characters of the value occurs in the query.
C16_AbsentWithoutLongSuffix ==
    \A i \in Scored : \A j \in StrMatches(flatten_result[i]) :
        LET m == flatten_result[i].match.ogcioMatches[j]
        IN  (~\E k \in 0..(Len(m.fieldVal) - 4) :
                  SuffixOccurs(input_address, m.fieldVal, k)) =>
                (m.matchSpan = <<>> /\ m.goodness = <<>>)

\* C16 amended: a match of matchStr has no span and no goodness whenever
\* none of the suffixes it tries occurs in the query: the whole value, and
\* the value without its i leading characters for 1 <= i <= min(N - 3, N div 2).
C16_AbsentWithoutTriedSuffix ==
    \A i \in Scored : \A j \in StrMatches(flatten_result[i]) :
        LET m == flatten_result[i].match.ogcioMatches[j]
        IN  (~\E k \in Stripped(m.fieldVal) :
                  SuffixOccurs(input_address, m.fieldVal, k)) =>
                (m.matchSpan = <<>> /\ m.goodness = <<>>)

\* a value of 5 characters has no match although its last 2 characters
\* occur in the query: no suffix of 3 characters or more does
C16_Witness ==
    \E i \in Scored : \E j \in StrMatches(flatten_result[i]) :
        LET m == flatten_result[i].match.ogcioMatches[j]
        IN  /\ Len(m.fieldVal) = 5
            /\ SuffixOccurs(input_address, m.fieldVal, 3)
            /\ m.matchSpan = <<>>
            /\ m.goodness = <<>>

\* C17: a match of matchStr with a span of length L, for a value of N
\* characters: the span is the first occurrence in the query of the last L
\* characters of the value, no longer suffix of the value occurs, and the
\* goodness is the float (L/N - 0.5) * 2, that is 2 * q - 1 for the float q
\* nearest to L/N; a value that occurs in the query has a span of its own
\* length and goodness 1.0.
C17_SpanAndGoodness ==
    \A i \in Scored : \A j \in StrMatches(flatten_result[i]) :
        LET m == flatten_result[i].match.ogcioMatches[j]
            N == Len(m.fieldVal)
            L == m.matchSpan[2] - m.matchSpan[1]
        IN  /\ m.matchSpan # <<>> =>
                  /\ L >= 1 /\ L <= N
                  /\ OccursAt(input_address, StrFrom(m.fieldVal, N - L), m.matchSpan[1])
                  /\ \A q \in 0..(m.matchSpan[1] - 1) :
                         ~OccursAt(input_address, StrFrom(m.fieldVal, N - L), q)
                  /\ \A k \in 0..(N - L - 1) : ~SuffixOccurs(input_address, m.fieldVal, k)
                  /\ IsGoodnessOf(m.goodness, L, N)
            /\ (N >= 1 /\ SuffixOccurs(input_address, m.fieldVal, 0)) =>
                  /\ m.matchSpan # <<>>
                  /\ L = N
                  /\ m.goodness = FloatOf(1)

\* the last 4 of the 5 characters of a value matched, after the first
\* character of the query: the goodness is the float 0.6000000000000001,
\* which is 2^-52 more than the float nearest to 3/5
C17_Witness ==
    \E i \in Scored : \E j \in StrMatches(flatten_result[i]) :
        LET m == flatten_result[i].match.ogcioMatches[j]
        IN  /\ Len(m.fieldVal) = 5
            /\ m.matchSpan = <<1, 5>>
            /\ m.goodness = <<2457, 629145, 629146>>

\* C18: for a candidate with a BuildingNoFrom, the matches of
\* BuildingNoFrom and BuildingNoTo have no span exactly when the range of
\* the candidate and the range read in the query right after the street
\* match do not overlap as strings: candidateTo < addressFrom or
\* candidateFrom > addressTo, a missing 'to' being its 'from'.
C18_NoSpanIffApartAsStrings ==
    \A i \in WithBuildingNo :
        LET c == flatten_result[i]
            street == Item(c.chi, "ChiStreet").d
            candidateFrom == GetStr(street, "BuildingNoFrom")
            candidateTo == IF GetStr(street, "BuildingNoTo") = <<>>
                           THEN candidateFrom ELSE GetStr(street, "BuildingNoTo")
            addressFrom == AddressRange(c).from
            addressTo == IF AddressRange(c).to = <<>>
                         THEN addressFrom ELSE AddressRange(c).to
            apart == \/ StrLess(candidateTo, addressFrom)
                     \/ StrLess(addressTo, candidateFrom)
        IN  /\ BNoMatches(c) # {}
            /\ \A j \in BNoMatches(c) :
                   c.match.ogcioMatches[j].matchSpan = <<>> <=> apart

\* the street matched and a number follows it in the query that lies in
\* the range of the candidate as a number (9 <= 19 <= 91), yet the
\* building numbers have no span: "9" > "19" as strings
C18_Witness ==
    \E i \in WithBuildingNo :
        LET c == flatten_result[i]
            street == Item(c.chi, "ChiStreet").d
        IN  /\ StreetMatchOf(c).matchSpan # <<>>
            /\ AddressRange(c).ok
            /\ AddressRange(c).from = <<49, 57>>
            /\ GetStr(street, "BuildingNoFrom") = <<57>>
            /\ GetStr(street, "BuildingNoTo") = <<57, 49>>
            /\ Cardinality(BNoMatches(c)) = 2
            /\ \A j \in BNoMatches(c) : c.match.ogcioMatches[j].matchSpan = <<>>

\* C19: the score of a candidate is the sum over its matches of -1 for a
\* match without a span and weight(fieldName) * goodness for a match with
\* one (Region 10, StreetName, VillageName and EstateName 20,
\* BuildingNoFrom and BuildingNoTo 30, BuildingName 40, any other field
\* 0), and a position of the query is marked in inAddrHasMatch exactly
\* when it lies inside the span of some match.
C19_ScoreAndMask ==
    \A i \in Scored :
        LET sim == flatten_result[i].match
            ms == sim.ogcioMatches
        IN  /\ sim.score = WeightedSum(ms, Len(ms))
            /\ Len(sim.inAddrHasMatch) = Len(input_address)
            /\ \A p \in 0..(Len(input_address) - 1) :
                   sim.inAddrHasMatch[p + 1] <=>
                       \E j \in DOMAIN ms :
                           /\ ms[j].matchSpan # <<>>
                           /\ ms[j].matchSpan[1] <= p
                           /\ p < ms[j].matchSpan[2]

\* for 香港中環皇后大道中99號: a candidate with a street that matched, a
\* region that matched and three matches without a span has the score
\* 10 + 20 - 3 = 27 and the number 99 unmarked; a candidate whose district
\* 中環 matched with weight 0 has the score 10 of its region
C19_Witness ==
    \E i \in Scored : \E k \in Scored :
        LET a == flatten_result[i].match
            b == flatten_result[k].match
        IN  /\ Cardinality({j \in DOMAIN a.ogcioMatches : a.ogcioMatches[j].matchSpan = <<>>}) = 3
            /\ \E j \in DOMAIN a.ogcioMatches :
                   /\ a.ogcioMatches[j].fieldName = "StreetName"
                   /\ a.ogcioMatches[j].matchSpan # <<>>
            /\ a.score = FloatOf(27)
            /\ a.inAddrHasMatch[1]
            /\ ~a.inAddrHasMatch[Len(input_address)]
            /\ \E j \in DOMAIN b.ogcioMatches :
                   /\ b.ogcioMatches[j].fieldName = "DcDistrict"
                   /\ b.ogcioMatches[j].matchSpan # <<>>
            /\ b.score = FloatOf(10)

\* C20 as stated: the record of a response of one suggestion with a street
\* and building numbers has the street name, a building number, and a
\* score that is the (integer part of the) similarity score of the
\* winning candidate.
C20_RecordScoreIsSimilarity ==
    OneSuggestionResolved =>
        LET record == parsed_response_dict[1]
            sim == flatten_result[1].match
        IN  /\ record.OGCIO_CHI_StreetName # <<>>
            /\ record.OGCIO_CHI_BuildingNo # <<>>
            /\ ~FloatLess(sim.score, FloatOf(record.score))
            /\ FloatLess(sim.score, FloatOf(record.score + 1))

\* C20 amended: the record has the street name of the winning candidate,
\* its BuildingNoFrom as building number, and a score that is the
\* validation score of the service for that candidate, cut to an integer;
\* the similarity score is not in the record.
C20_RecordScoreIsProviderScore ==
    OneSuggestionResolved =>
        LET record == parsed_response_dict[1]
            winner == flatten_result[1]
        IN  /\ record.input_address = input_address
            /\ record.OGCIO_CHI_StreetName # <<>>
            /\ record.OGCIO_CHI_StreetName =
                   NestedStr(winner.chi, "ChiStreet", "StreetName")
            /\ record.OGCIO_CHI_BuildingNo # <<>>
            /\ record.OGCIO_CHI_BuildingNo =
                   NestedStr(winner.chi, "ChiStreet", "BuildingNoFrom")
            /\ 10 * record.score <= winner.OGCIO_score
            /\ winner.OGCIO_score < 10 * (record.score + 1)

\* 香港中環皇后大道中99號 against the one suggestion 皇后大道中 95-101 with
\* the validation score 75.6: the record has the street, the number 95
\* and the score 75, and the similarity score of the candidate is 27
C20_Witness ==
    /\ OneSuggestionResolved
    /\ input_address = ExampleAddress
    /\ parsed_response_dict[1].OGCIO_CHI_StreetName = QueensRoadCentral
    /\ parsed_response_dict[1].OGCIO_CHI_BuildingNo = <<57, 53>>
    /\ flatten_result[1].OGCIO_score = 756
    /\ parsed_response_dict[1].score = 75
    /\ flatten_result[1].match.score = FloatOf(27)

\* C21: the bucket holds between 0 and min(2, floor(rate_limit) + 1)
\* tokens; the filler begins by filling it to that capacity, a turn of its
\* loop puts at most as many tokens as there is room for, and the filler
\* never ends on a put into a full queue.
C21_BucketWithinCapacity ==
    /\ [](session \in {"open", "closed"} =>
             /\ maxsize = (IF rate_limit >= 10 THEN 2 ELSE 1)
             /\ queue >= 0
             /\ queue <= maxsize
             /\ filler # "failed")
    /\ [][/\ (filler = "created" /\ filler' = "sleeping") => queue' = maxsize
          /\ put_count' > put_count =>
                 /\ queue' - queue = put_count' - put_count
                 /\ put_count' - put_count <= maxsize - queue]_vars

\* after the first filling tokens were taken and the filler has put tokens
\* again: the bucket is full, and the filler sleeps
C21_Witness ==
    /\ session = "open"
    /\ filler = "sleeping"
    /\ maxsize = 2
    /\ put_count >= maxsize + 2
    /\ queue = maxsize

\* C22: before ParseAddress sorts, the candidate at position i (from 0)
\* has rank i; the sort leaves a permutation of the candidates, each as it
\* was (its rank included), in which no candidate comes before one of a
\* greater score and candidates of equal score are in increasing rank.
C22_RankKeptStableSort ==
    /\ [](parsed_response_dict = <<>> =>
             \A i \in DOMAIN flatten_result : flatten_result[i].rank = i - 1)
    /\ [][(parsed_response_dict = <<>> /\ Returned') =>
             /\ \E p \in [DOMAIN flatten_result -> DOMAIN flatten_result] :
                    /\ \A i \in DOMAIN p : \A j \in DOMAIN p : p[i] = p[j] => i = j
                    /\ flatten_result' =
                           [i \in DOMAIN flatten_result |-> flatten_result[p[i]]]
             /\ \A i \in DOMAIN flatten_result' : \A j \in DOMAIN flatten_result' :
                    i < j =>
                        /\ ~FloatLess(flatten_result'[i].match.score,
                                    flatten_result'[j].match.score)
                        /\ flatten_result'[i].match.score = flatten_result'[j].match.score
                               => flatten_result'[i].rank < flatten_result'[j].rank]_vars

\* the last of three candidates had the greatest score and the two before
\* it the same score: the sorted list has the ranks 2, 0, 1
C22_Witness ==
    /\ Returned
    /\ Len(flatten_result) = 3
    /\ flatten_result[1].rank = 2
    /\ flatten_result[2].rank = 0
    /\ flatten_result[3].rank = 1
    /\ flatten_result[2].match.score = flatten_result[3].match.score
    /\ FloatLess(flatten_result[2].match.score, flatten_result[1].match.score)

\* C23: in a batch of more addresses than slots, or of none, where every
\* network call returns and the filler runs, every get_data task returns
\* in the end (no task waits for a slot or for a token for ever), and then
\* the gather returns and close() runs to its end, which closes the
\* session of a batch that had a task.
C23_BatchCompletes ==
    <>[](/\ \A t \in 1..naddr : pc[t] = "done"
         /\ Len(finished) = naddr
         /\ CloseEnded
         /\ naddr > 0 => session = "closed")

\* both slots are taken by tasks that wait for a token on the empty
\* bucket, the third task waits for a slot
C23_Witness ==
    /\ naddr = NumAddr
    /\ NumAddr > MaxInFlight
    /\ sem = 0
    /\ queue = 0
    /\ Cardinality({t \in Tasks : pc[t] = "allow"}) = MaxInFlight
    /\ \E t \in Tasks : pc[t] = "sem"

\* C24: in a batch run the filler is cancelled, and the session closed,
\* only when every get_data task has returned: no task is in its loop,
\* waits for a slot or a token, has a call under way or sleeps in backoff
\* once the filler is stopped.
C24_ClosedAfterAllTasks ==
    /\ []((filler \in {"cancelled", "failed"} \/ session = "closed") =>
             /\ \A t \in 1..naddr : pc[t] = "done"
             /\ Len(finished) = naddr)
    /\ [][(filler # filler' /\ filler' = "cancelled") =>
             \A t \in 1..naddr : pc[t] = "done" /\ Outcome(t) # "pending"]_vars

\* the session of a batch of three is closed: every task has returned,
\* one of them after a retry, and the filler had refilled the bucket
C24_Witness ==
    /\ session = "closed"
    /\ filler = "cancelled"
    /\ naddr = NumAddr
    /\ \A t \in Tasks : pc[t] = "done"
    /\ \E t \in Tasks : retries[t] > 0
    /\ put_count > maxsize

\* C25 as stated: besides the match of the street there is exactly one
\* match for each of BuildingNoFrom and BuildingNoTo that the candidate
\* has and none for one it has not; the goodness of the BuildingNoFrom
\* match is 1 when the 'from' read in the query equals the candidate's and
\* 1/2 otherwise, and likewise for BuildingNoTo.
C25_OneMatchPerPresentField ==
    \A i \in WithStreet :
        LET c == flatten_result[i]
            street == Item(c.chi, "ChiStreet").d
            ms == c.match.ogcioMatches
        IN  /\ Cardinality(MatchesOf(c, "StreetName")) = 1
            /\ Cardinality(MatchesOf(c, "BuildingNoFrom")) =
                   (IF HasKey(street, "BuildingNoFrom") THEN 1 ELSE 0)
            /\ Cardinality(MatchesOf(c, "BuildingNoTo")) =
                   (IF HasKey(street, "BuildingNoTo") THEN 1 ELSE 0)
            /\ \A j \in MatchesOf(c, "BuildingNoFrom") :
                   ms[j].goodness =
                       OneOrHalf(AddressRange(c).from = GetStr(street, "BuildingNoFrom"))
            /\ \A j \in MatchesOf(c, "BuildingNoTo") :
                   ms[j].goodness =
                       OneOrHalf(AddressRange(c).to = GetStr(street, "BuildingNoTo"))

\* C25 amended: for a candidate whose BuildingNoFrom is there and not
\* empty there is, besides the match of the street, exactly one match for
\* BuildingNoFrom and one for BuildingNoTo when the candidate has it;
\* without such a BuildingNoFrom there is the match of the street alone.
\* The goodness of the BuildingNoFrom match is 1 when the 'from' read in
\* the query equals the candidate's and 1/2 otherwise, and likewise for
\* BuildingNoTo, a missing 'to' being taken as the 'from' of its side.
C25_OneMatchPerFieldAfterFrom ==
    \A i \in WithStreet :
        LET c == flatten_result[i]
            street == Item(c.chi, "ChiStreet").d
            ms == c.match.ogcioMatches
            hasFrom == GetStr(street, "BuildingNoFrom") # <<>>
            candidateTo == IF GetStr(street, "BuildingNoTo") = <<>>
                           THEN GetStr(street, "BuildingNoFrom")
                           ELSE GetStr(street, "BuildingNoTo")
            addressTo == IF AddressRange(c).to = <<>>
                         THEN AddressRange(c).from ELSE AddressRange(c).to
        IN  /\ Cardinality(MatchesOf(c, "StreetName")) = 1
            /\ Cardinality(MatchesOf(c, "BuildingNoFrom")) =
                   (IF hasFrom THEN 1 ELSE 0)
            /\ Cardinality(MatchesOf(c, "BuildingNoTo")) =
                   (IF hasFrom /\ HasKey(street, "BuildingNoTo") THEN 1 ELSE 0)
            /\ \A j \in MatchesOf(c, "BuildingNoFrom") :
                   ms[j].goodness =
                       OneOrHalf(AddressRange(c).from = GetStr(street, "BuildingNoFrom"))
            /\ \A j \in MatchesOf(c, "BuildingNoTo") :
                   ms[j].goodness = OneOrHalf(addressTo = candidateTo)

\* 九龍彌敦道594號 against 彌敦道 594-596: the match of BuildingNoFrom has
\* the goodness 1 and the match of BuildingNoTo the goodness 1/2
C25_Witness ==
    \E i \in WithStreet :
        LET c == flatten_result[i]
            ms == c.match.ogcioMatches
        IN  /\ input_address = OtherAddress
            /\ AddressRange(c).ok
            /\ \E j \in MatchesOf(c, "BuildingNoFrom") :
                   ms[j].fieldVal = <<53, 57, 52>> /\ ms[j].goodness = FloatOf(1)
            /\ \E j \in MatchesOf(c, "BuildingNoTo") :
                   ms[j].fieldVal = <<53, 57, 54>> /\ ms[j].goodness = FloatHalf

=============================================================================
